---- MODULE Spec2Model ----
(***************************************************************************)
(* Model of backend/main.py: the IslamicChatbot ingestion (load_data,      *)
(* fetch_all_hadiths), the chain setup, answer_question and the /api/chat  *)
(* handler.  HTTP responses of the two text APIs, the vector store, the    *)
(* chain and the environment are the nondeterministic inputs.              *)
(***************************************************************************)
EXTENDS Integers, Sequences, FiniteSets, TLC

\* ------------------------------------------------------------------ bounds
\* load_data sets total_surahs = 114 (main.py:199); the model walks fewer.
total_surahs == 2
\* most ayahs one edition of one surah carries in a response
MaxAyahs == 2
\* most non-empty pages a remote hadith collection holds
MaxPages == 2
\* records on one non-empty page (per_page = 25 in the source)
MaxRecords == 2
\* longest question typed into /api/chat
MaxQLen == 1
\* largest max_retries argument handed to fetch_all_hadiths
MaxRetriesArg == 3

\* ------------------------------------------------------- program constants
max_retries == 3
retry_delay == 2
page_delay == 1
min_answer_len == 10

collections == <<"sahih-bukhari", "sahih-muslim">>

\* Python's None and a present value, as a sequence of length 0 or 1
None == <<>>
Some(x) == <<x>>

\* statuses after which the spec wants no retry
TerminalStatus == {401, 403, 404}
\* other non-200 statuses (one representative of the 5xx/429 family)
TransientStatus == {500}
ErrorStatus == TerminalStatus \cup TransientStatus

Min(a, b) == IF a < b THEN a ELSE b
Range(s) == {s[i] : i \in 1..Len(s)}

VARIABLES
  env,                  \* process environment: the two API credentials
  pc,                   \* position of the process: import, startup phases, serving
  raised_in,            \* startup phase whose exception reached startup_event
  documents,            \* load_data: documents
  surah,                \* load_data: surah of the Quran loop
  attempt,              \* load_data: attempt of the Quran retry loop
  q_log,                \* requests issued for the current surah, in order
  coll,                 \* load_data: position in collections
  h_log,                \* hadith requests issued by load_data, in order
  vector_store,         \* IslamicChatbot.vector_store
  qa_chain,             \* IslamicChatbot.qa_chain
  conversation_history, \* IslamicChatbot.conversation_history
  last,                 \* the last /api/chat exchange
  inflight,             \* the request whose handler the event loop is running
  cut_short,            \* surahs whose 200 response gave fewer documents than ayahs
  fh_pc,                \* fetch_all_hadiths: idle, loop, while, done
  fh_collection,        \* fetch_all_hadiths: collection
  fh_max_retries,       \* fetch_all_hadiths: max_retries
  fh_documents,         \* fetch_all_hadiths: documents
  fh_page,              \* fetch_all_hadiths: page
  fh_attempt,           \* fetch_all_hadiths: attempt
  fh_log,               \* requests issued for the current page, in order
  fh_result             \* what fetch_all_hadiths returned

svc_vars == <<env, pc, raised_in, documents, surah, attempt, q_log, coll, h_log,
              vector_store, qa_chain, conversation_history, last, inflight,
              cut_short>>

fh_vars == <<fh_pc, fh_collection, fh_max_retries, fh_documents, fh_page,
             fh_attempt, fh_log, fh_result>>

vars == <<svc_vars, fh_vars>>

\* ----------------------------------------------------------- Quran records
\* the text of ayah i of one edition of a surah
AyahText(edition, s, i) == <<edition, s, i>>

\* one edition of a surah as the API returns it: n ayahs
Edition(edition, s, n) == [i \in 1..n |-> [text |-> AyahText(edition, s, i)]]

\* f"Quran {surah}:{ayah_idx}\nArabic: {arabic_text}\nEnglish: {english_text}"
QuranDoc(s, ayah_idx, arabic_text, english_text) ==
  <<"Quran", s, ayah_idx, arabic_text, english_text>>

\* index of the translation's ayah paired with ayah_idx (enumerate starts at 1)
EnglishIndex(ayah_idx) == ayah_idx - 1

\* the enumerate loop over data['data'][0]['ayahs']: the documents appended
\* before the loop ends or data['data'][1]['ayahs'][...] raises IndexError.
\* Python list positions are 0-based: position k is element k+1 here.
RECURSIVE PairFrom(_, _, _, _)
PairFrom(s, orig, trans, ayah_idx) ==
  IF ayah_idx > Len(orig) THEN [docs |-> <<>>, raised |-> FALSE]
  ELSE IF EnglishIndex(ayah_idx) + 1 > Len(trans)
       THEN [docs |-> <<>>, raised |-> TRUE]
       ELSE LET rest == PairFrom(s, orig, trans, ayah_idx + 1)
                d == QuranDoc(s, ayah_idx, orig[ayah_idx].text,
                              trans[EnglishIndex(ayah_idx) + 1].text)
            IN [docs |-> <<d>> \o rest.docs, raised |-> rest.raised]

PairAyahs(s, orig, trans) == PairFrom(s, orig, trans, 1)

\* documents of surah s among docs, in order
RECURSIVE DocsOfSurah(_, _)
DocsOfSurah(docs, s) ==
  IF docs = <<>> THEN <<>>
  ELSE IF docs[1][1] = "Quran" /\ docs[1][2] = s
       THEN <<docs[1]>> \o DocsOfSurah(Tail(docs), s)
       ELSE DocsOfSurah(Tail(docs), s)

\* ------------------------------------------------------------ module import
\* main.py:21-22 slice os.getenv(...) at import: None[:10] raises TypeError and
\* the process never starts; an empty string slices fine.
KeyValues == {None, Some(""), Some("key")}

ImportModule ==
  /\ pc = "import"
  /\ UNCHANGED fh_vars
  /\ UNCHANGED <<inflight, cut_short>>
  /\ pc' = IF env.OPENAI_API_KEY = None \/ env.HADITH_API_KEY = None
           THEN "crashed" ELSE "quran"
  /\ UNCHANGED <<env, raised_in, documents, surah, attempt, q_log, coll, h_log,
                 vector_store, qa_chain, conversation_history, last>>

\* ------------------------------------------------- load_data: the Quran loop
QEntry(kind, status, o, t, slept) ==
  [surah |-> surah, attempt |-> attempt, kind |-> kind, status |-> status,
   o |-> o, t |-> t, slept |-> slept]

QLogged(e) == IF attempt = 0 THEN <<e>> ELSE Append(q_log, e)

\* the inner for loop ended (break, or the attempts ran out): next surah, or
\* after the last surah the hadith part of load_data
QuranNextSurah ==
  IF surah < total_surahs
  THEN surah' = surah + 1 /\ attempt' = 0 /\ pc' = "quran"
  ELSE surah' = surah /\ attempt' = attempt /\ pc' = "hadith_key"

\* the retry test is off by one: a fourth request is made for the surah
QuranFailedM(kind, status) ==
  /\ documents' = documents
  /\ raised_in' = raised_in
  /\ IF attempt < max_retries
     THEN /\ q_log' = QLogged(QEntry(kind, status, 0, 0, retry_delay))
          /\ attempt' = attempt + 1
          /\ surah' = surah
          /\ pc' = "quran"
     ELSE /\ q_log' = QLogged(QEntry(kind, status, 0, 0, 0))
          /\ QuranNextSurah

\* the else branch and the except branch: sleep and retry, or give the surah
\* up.  Neither branch looks at the status: 401/403/404 are retried like 500.
QuranFailed(kind, status) ==
  /\ documents' = documents
  /\ raised_in' = raised_in
  /\ IF attempt < max_retries - 1
     THEN /\ q_log' = QLogged(QEntry(kind, status, 0, 0, retry_delay))
          /\ attempt' = attempt + 1
          /\ surah' = surah
          /\ pc' = "quran"
     ELSE /\ q_log' = QLogged(QEntry(kind, status, 0, 0, 0))
          /\ QuranNextSurah

\* startup_event guards the two calls separately: after a failed load_data it
\* still calls setup_qa_chain
LoadDataRaisesM(phase) ==
  /\ raised_in' = phase
  /\ pc' = "setup"
\* an exception leaves load_data (re-raised at main.py:362-364) and is caught
\* by startup_event, which skips setup_qa_chain
LoadDataRaises(phase) ==
  /\ raised_in' = phase
  /\ pc' = "startup_except"

\* requests.get raises a RequestException (connection error, timeout)
QuranNetworkError ==
  /\ pc = "quran"
  /\ UNCHANGED fh_vars
  /\ UNCHANGED <<inflight, cut_short>>
  /\ QuranFailed("neterr", 0)
  /\ UNCHANGED <<env, coll, h_log, vector_store, qa_chain,
                 conversation_history, last>>

\* a non-200 status
QuranStatusError ==
  /\ pc = "quran"
  /\ UNCHANGED fh_vars
  /\ UNCHANGED <<inflight, cut_short>>
  /\ \E status \in ErrorStatus : QuranFailed("status", status)
  /\ UNCHANGED <<env, coll, h_log, vector_store, qa_chain,
                 conversation_history, last>>

\* status 200 whose body response.json() cannot decode.  requests >= 2.27
\* raises requests.exceptions.JSONDecodeError, a RequestException (the except
\* branch retries); older releases raise a plain ValueError, which leaves
\* load_data.  The repository pins no version: either can happen.
QuranUndecodable ==
  /\ pc = "quran"
  /\ UNCHANGED fh_vars
  /\ UNCHANGED <<inflight, cut_short>>
  /\ \/ QuranFailed("undecodable", 200)
     \/ /\ q_log' = QLogged(QEntry("undecodable", 200, 0, 0, 0))
        /\ LoadDataRaises("quran")
        /\ UNCHANGED <<documents, surah, attempt>>
  /\ UNCHANGED <<env, coll, h_log, vector_store, qa_chain,
                 conversation_history, last>>

\* the IndexError of a short translation is swallowed and the loop goes on
QuranOkM ==
  /\ pc = "quran"
  /\ UNCHANGED fh_vars
  /\ UNCHANGED inflight
  /\ \E o \in 0..MaxAyahs, t \in 0..MaxAyahs :
       LET r == PairAyahs(surah, Edition("quran-uthmani", surah, o),
                          Edition("en.asad", surah, t))
       IN /\ documents' = documents \o r.docs
          /\ q_log' = QLogged(QEntry("ok", 200, o, t, 0))
          /\ cut_short' = IF Len(r.docs) < o THEN cut_short \cup {surah}
                          ELSE cut_short
          /\ QuranNextSurah
          /\ raised_in' = raised_in
  /\ UNCHANGED <<env, coll, h_log, vector_store, qa_chain,
                 conversation_history, last>>

\* status 200 with o ayahs in the original edition and t in the translation
QuranOk ==
  /\ pc = "quran"
  /\ UNCHANGED fh_vars
  /\ UNCHANGED inflight
  /\ \E o \in 0..MaxAyahs, t \in 0..MaxAyahs :
       LET r == PairAyahs(surah, Edition("quran-uthmani", surah, o),
                          Edition("en.asad", surah, t))
       IN /\ documents' = documents \o r.docs
          /\ q_log' = QLogged(QEntry("ok", 200, o, t, 0))
          /\ cut_short' = IF Len(r.docs) < o THEN cut_short \cup {surah}
                          ELSE cut_short
          /\ IF r.raised
             THEN LoadDataRaises("quran") /\ UNCHANGED <<surah, attempt>>
             ELSE QuranNextSurah /\ raised_in' = raised_in
  /\ UNCHANGED <<env, coll, h_log, vector_store, qa_chain,
                 conversation_history, last>>

\* ------------------------------------------------ load_data: the hadith part
\* main.py:238-241: without a credential load_data returns before the vector
\* store is created; startup_event then calls setup_qa_chain
\* without a Hadith key the index is built from the Quran records alone
CheckHadithKeyM ==
  /\ pc = "hadith_key"
  /\ UNCHANGED fh_vars
  /\ UNCHANGED <<inflight, cut_short>>
  /\ pc' = IF env.HADITH_API_KEY = Some("") THEN "index" ELSE "hadith"
  /\ q_log' = <<>>
  /\ UNCHANGED <<env, raised_in, documents, surah, attempt, coll, h_log,
                 vector_store, qa_chain, conversation_history, last>>

CheckHadithKey ==
  /\ pc = "hadith_key"
  /\ UNCHANGED fh_vars
  /\ UNCHANGED <<inflight, cut_short>>
  /\ pc' = IF env.HADITH_API_KEY = Some("") THEN "setup" ELSE "hadith"
  /\ q_log' = <<>>
  /\ UNCHANGED <<env, raised_in, documents, surah, attempt, coll, h_log,
                 vector_store, qa_chain, conversation_history, last>>

\* record k of page p of a collection, as the Hadith API serves it; a malformed
\* record is one whose fields make the formatting code raise (a 'book' or
\* 'chapter' that is no object, a record that is no object)
HadithRecord(collection, p, k, wellformed) ==
  [hadithNumber |-> <<collection, p, k>>, wellformed |-> wellformed]

\* where a page may carry its malformed record: nowhere (0), first, or last
BadPositions == {0, 1, MaxRecords}

\* page p of a collection of last_page non-empty pages, as the API serves it:
\* MaxRecords records, none beyond the last page; record bad (if any) is
\* malformed
RemotePage(collection, last_page, p, bad) ==
  IF p \in 1..last_page
  THEN [k \in 1..MaxRecords |-> HadithRecord(collection, p, k, k # bad)]
  ELSE <<>>

\* the 13-line text block of main.py:302-316, by the fields that identify it
HadithDocLoad(collection, hadith) == <<"Hadith", collection, hadith.hadithNumber>>

\* the for loop of main.py:288-322: a record whose formatting raises is
\* skipped by the inner except
RECURSIVE FormatHadiths(_, _)
FormatHadiths(collection, hadiths) ==
  IF hadiths = <<>> THEN <<>>
  ELSE IF hadiths[1].wellformed
       THEN <<HadithDocLoad(collection, hadiths[1])>>
            \o FormatHadiths(collection, Tail(hadiths))
       ELSE FormatHadiths(collection, Tail(hadiths))

HEntry(kind, status, last_page, hadiths) ==
  [coll |-> coll, kind |-> kind, status |-> status, last_page |-> last_page,
   hadiths |-> hadiths]

\* continue: the next collection, or past the loop the vector store
HadithNextCollection ==
  IF coll < Len(collections)
  THEN coll' = coll + 1 /\ pc' = "hadith"
  ELSE coll' = coll /\ pc' = "index"

\* requests.get of main.py:263 raises: it stands in no try of its own, so the
\* exception reaches the outer except of load_data and is re-raised
HadithNetworkError ==
  /\ pc = "hadith"
  /\ UNCHANGED fh_vars
  /\ UNCHANGED <<inflight, cut_short>>
  /\ h_log' = Append(h_log, HEntry("neterr", 0, 0, <<>>))
  /\ LoadDataRaises("hadith")
  /\ UNCHANGED <<env, documents, surah, attempt, q_log, coll,
                 vector_store, qa_chain, conversation_history, last>>

\* 401, 403, 404 or another non-200 status: continue
HadithStatusError ==
  /\ pc = "hadith"
  /\ UNCHANGED fh_vars
  /\ UNCHANGED <<inflight, cut_short>>
  /\ \E status \in ErrorStatus : h_log' = Append(h_log, HEntry("status", status, 0, <<>>))
  /\ HadithNextCollection
  /\ UNCHANGED <<env, raised_in, documents, surah, attempt, q_log,
                 vector_store, qa_chain, conversation_history, last>>

\* status 200 with an undecodable body: the except of main.py:326 catches
\* json.JSONDecodeError.  What response.json() raises is that class unless
\* simplejson is installed (then it is simplejson's error, a ValueError only),
\* in which case the exception leaves load_data.
HadithUndecodable ==
  /\ pc = "hadith"
  /\ UNCHANGED fh_vars
  /\ UNCHANGED <<inflight, cut_short>>
  /\ h_log' = Append(h_log, HEntry("undecodable", 200, 0, <<>>))
  /\ \/ HadithNextCollection /\ raised_in' = raised_in
     \/ LoadDataRaises("hadith") /\ coll' = coll
  /\ UNCHANGED <<env, documents, surah, attempt, q_log,
                 vector_store, qa_chain, conversation_history, last>>

\* status 200: the request of main.py:252-271 names no page, so the API
\* answers with the first page of the collection (hadiths.current_page = 1);
\* the payload's last_page says how many pages the collection has
HadithOk ==
  /\ pc = "hadith"
  /\ UNCHANGED fh_vars
  /\ UNCHANGED <<inflight, cut_short>>
  /\ \E last_page \in 0..MaxPages, bad \in BadPositions :
       LET hadiths == RemotePage(collections[coll], last_page, 1, bad)
       IN /\ h_log' = Append(h_log, HEntry("ok", 200, last_page, hadiths))
          /\ documents' = documents \o FormatHadiths(collections[coll], hadiths)
  /\ HadithNextCollection
  /\ UNCHANGED <<env, raised_in, surah, attempt, q_log,
                 vector_store, qa_chain, conversation_history, last>>

\* -------------------------------------------- vector store and chain set-up
\* main.py:348-360: the chunks of the documents go to Chroma; a failure of the
\* embedding provider is re-raised
CreateVectorStore ==
  /\ pc = "index"
  /\ UNCHANGED fh_vars
  /\ UNCHANGED <<inflight, cut_short>>
  /\ \/ vector_store' = Some(documents) /\ pc' = "setup" /\ raised_in' = raised_in
     \/ vector_store' = vector_store /\ LoadDataRaises("index")
  /\ UNCHANGED <<env, documents, surah, attempt, q_log, coll, h_log,
                 qa_chain, conversation_history, last>>

\* setup_qa_chain: self.vector_store.as_retriever raises AttributeError when
\* no vector store was created; ChatOpenAI/RetrievalQA construction may fail
SetupQaChain ==
  /\ pc = "setup"
  /\ UNCHANGED fh_vars
  /\ UNCHANGED <<inflight, cut_short>>
  /\ \/ /\ vector_store # None
        /\ qa_chain' = Some("chain")
        /\ raised_in' = raised_in
        /\ pc' = "startup_done"
     \/ /\ qa_chain' = qa_chain
        /\ raised_in' = "setup"
        /\ pc' = "startup_except"
  /\ UNCHANGED <<env, documents, surah, attempt, q_log, coll, h_log,
                 vector_store, conversation_history, last>>

\* startup_event returns (after its print, or after the print of its except
\* branch) and the server starts taking requests.  The locals of load_data are
\* gone by then, and so is the record of its requests.
StartServing ==
  /\ pc \in {"startup_done", "startup_except"}
  /\ UNCHANGED fh_vars
  /\ UNCHANGED <<inflight, cut_short>>
  /\ pc' = "serving"
  /\ documents' = <<>>
  /\ surah' = 1
  /\ attempt' = 0
  /\ coll' = 1
  /\ q_log' = <<>>
  /\ h_log' = <<>>
  /\ UNCHANGED <<env, raised_in, vector_store, qa_chain, conversation_history, last>>

\* ---------------------------------------------------------- answer_question
\* strings are sequences of characters
Whitespace == {" ", "\n"}
\* the characters questions are typed from
Chars == {" ", "q"}

\* every string of length at most n over Chars
StringsUpTo(n) == UNION {[1..k -> Chars] : k \in 0..n}

Rep(c, n) == [i \in 1..n |-> c]

RECURSIVE LStrip(_)
LStrip(s) == IF s # <<>> /\ s[1] \in Whitespace THEN LStrip(Tail(s)) ELSE s

RECURSIVE RStrip(_)
RStrip(s) ==
  IF s # <<>> /\ s[Len(s)] \in Whitespace THEN RStrip(SubSeq(s, 1, Len(s) - 1)) ELSE s

\* str.strip()
Strip(s) == RStrip(LStrip(s))

\* the validation forgets strip(): only the empty string is refused
BlankM(question) == question = <<>>
\* not question.strip()
Blank(question) == Strip(question) = <<>>

\* the guard is dropped
ChainUnsetM(chain) == FALSE
\* not self.qa_chain
ChainUnset(chain) == chain = None

\* what self.qa_chain.invoke does: raises, or returns a dict whose 'result' is
\* None or a text, or (for a chain of another type) something that is no dict
Answers ==
  {None, Some(<<>>)} \cup
  {Some(Rep(" ", pad) \o Rep("q", m) \o Rep("\n", pad)) :
     pad \in 0..1, m \in {0, min_answer_len - 1, min_answer_len}}

\* "raise": an exception out of invoke, or the KeyError of response['result']
\* for a dict without that key; both inside the try
ChainOutcomes ==
  [kind : {"raise"}, value : {Some("ChainError"), Some("'result'")}] \cup
  [kind : {"dict"}, value : Answers] \cup
  [kind : {"other"}, value : {Some(Rep("q", min_answer_len))}]

\* an error result that also carries an (empty) answer
ErrorResultM(message) == [answer |-> <<>>, error |-> message, status |-> "error"]
ErrorResult(message) == [error |-> message, status |-> "error"]
\* the answer is returned stripped
SuccessResultM(answer) == [answer |-> Strip(answer), status |-> "success"]
SuccessResult(answer) == [answer |-> answer, status |-> "success"]

\* response['result'] if isinstance(response, dict) else str(response)
ExtractAnswer(outcome) == outcome.value

\* the length test is off by one: a text of min_answer_len - 1 characters passes
InvalidAnswerM(answer) ==
  answer = None \/ answer[1] = <<>> \/ Len(Strip(answer[1])) < min_answer_len - 1
\* not answer or len(answer.strip()) < 10
InvalidAnswer(answer) ==
  answer = None \/ answer[1] = <<>> \/ Len(Strip(answer[1])) < min_answer_len

\* answer_question: the result it returns and whether it invoked the chain
answer_question(chain, question, outcome) ==
  IF ChainUnset(chain)
  THEN [result |-> ErrorResult(<<"QA chain not initialized. Please call setup_qa_chain() first.">>),
        invoked |-> FALSE]
  ELSE IF Blank(question)
  THEN [result |-> ErrorResult(<<"Please provide a valid question.">>), invoked |-> FALSE]
  ELSE IF outcome.kind = "raise"
  THEN [result |-> ErrorResult(<<"An error occurred: ", outcome.value[1]>>), invoked |-> TRUE]
  ELSE IF InvalidAnswer(ExtractAnswer(outcome))
  THEN [result |-> ErrorResult(<<"Generated response was invalid or too short.">>),
        invoked |-> TRUE]
  ELSE [result |-> SuccessResult(ExtractAnswer(outcome)[1]), invoked |-> TRUE]

\* --------------------------------------------------------- POST /api/chat
\* str(HTTPException(status_code, detail)): Starlette prints "status: detail"
StrHTTPException(status_code, detail) == <<status_code, ": ", detail>>

\* the handler of main.py:449-458.  The HTTPException(400) is raised inside the
\* try whose except Exception catches it (HTTPException is an Exception) and
\* raises HTTPException(500) with the text of the first as detail.
chat(response) ==
  IF response.status = "success"
  THEN [status_code |-> 200, body |-> [answer |-> response.answer]]
  ELSE [status_code |-> 500, detail |-> StrHTTPException(400, response.error)]

\* the event loop takes a request and starts its handler.  chat is an async
\* def run on the one event loop of the one process uvicorn.run starts
\* (main.py:460-466); its body has no await, so until it returns the loop
\* runs nothing else.
ChatAccept ==
  /\ pc = "serving"
  /\ UNCHANGED fh_vars
  /\ UNCHANGED cut_short
  /\ inflight = None
  /\ \E question \in StringsUpTo(MaxQLen) : inflight' = Some(question)
  /\ UNCHANGED <<env, pc, raised_in, documents, surah, attempt, q_log, coll,
                 h_log, vector_store, qa_chain, conversation_history, last>>

\* answer_question records the question in the history buffer
ChatM ==
  /\ pc = "serving"
  /\ UNCHANGED fh_vars
  /\ UNCHANGED cut_short
  /\ inflight # None
  /\ \E outcome \in ChainOutcomes :
       LET question == inflight[1]
           r == answer_question(qa_chain, question, outcome)
       IN last' = Some([question |-> question, ready |-> qa_chain # None,
                        outcome |-> IF r.invoked THEN Some(outcome) ELSE None,
                        invoked |-> r.invoked, result |-> r.result,
                        http |-> chat(r.result)])
  /\ inflight' = None
  /\ conversation_history' = <<inflight[1]>>
  /\ UNCHANGED <<env, pc, raised_in, documents, surah, attempt, q_log, coll,
                 h_log, vector_store, qa_chain>>

\* the handler runs to its end: answer_question is a plain call, and inside it
\* self.qa_chain.invoke is a blocking call that returns or raises
Chat ==
  /\ pc = "serving"
  /\ UNCHANGED fh_vars
  /\ UNCHANGED cut_short
  /\ inflight # None
  /\ \E outcome \in ChainOutcomes :
       LET question == inflight[1]
           r == answer_question(qa_chain, question, outcome)
       IN last' = Some([question |-> question, ready |-> qa_chain # None,
                        outcome |-> IF r.invoked THEN Some(outcome) ELSE None,
                        invoked |-> r.invoked, result |-> r.result,
                        http |-> chat(r.result)])
  /\ inflight' = None
  /\ UNCHANGED <<env, pc, raised_in, documents, surah, attempt, q_log, coll,
                 h_log, vector_store, qa_chain, conversation_history>>

\* -------------------------------------------------------- fetch_all_hadiths
\* the 6-line text block of main.py:147-154, by the fields that identify it
HadithDocFetch(collection, hadith) ==
  <<"Hadith", collection, "Grade", hadith.hadithNumber>>

\* the for loop of main.py:138-156: documents appended until a record makes
\* the formatting raise (hadith.get on a record that is no object, .lower() on
\* a null status); nothing in the loop catches it
RECURSIVE ProcessHadiths(_, _)
ProcessHadiths(collection, hadiths) ==
  IF hadiths = <<>> THEN [docs |-> <<>>, raised |-> FALSE]
  ELSE IF ~hadiths[1].wellformed THEN [docs |-> <<>>, raised |-> TRUE]
  ELSE LET rest == ProcessHadiths(collection, Tail(hadiths))
       IN [docs |-> <<HadithDocFetch(collection, hadiths[1])>> \o rest.docs,
           raised |-> rest.raised]

\* 404 is forgotten
IsTerminalM(status) == status \in {401, 403}
\* the elif branches of main.py:164-172
IsTerminal(status) == status \in {401, 403, 404}

\* an empty page is processed like any other
NoMoreHadithsM(hadiths) == FALSE
\* not hadiths
NoMoreHadiths(hadiths) == hadiths = <<>>

FEntry(kind, status, hadiths, slept) ==
  [page |-> fh_page, attempt |-> fh_attempt, kind |-> kind, status |-> status,
   hadiths |-> hadiths, before |-> Len(fh_documents), slept |-> slept]

FLogged(e) == IF fh_attempt = 0 THEN <<e>> ELSE Append(fh_log, e)

\* return documents
FetchReturns(docs) ==
  /\ fh_pc' = "done"
  /\ fh_result' = Some(docs)
  /\ UNCHANGED <<fh_page, fh_attempt>>

\* a failed attempt moves on to the next page
FetchFailedM(kind, status, hadiths, docs) ==
  /\ fh_documents' = docs
  /\ IF fh_attempt < fh_max_retries - 1
     THEN /\ fh_log' = FLogged(FEntry(kind, status, hadiths, retry_delay))
          /\ fh_attempt' = fh_attempt + 1
          /\ fh_page' = fh_page + 1
          /\ UNCHANGED <<fh_pc, fh_result>>
     ELSE /\ fh_log' = FLogged(FEntry(kind, status, hadiths, 0))
          /\ FetchReturns(docs)

\* main.py:176-179 and 185-188: sleep and continue, or return documents
FetchFailed(kind, status, hadiths, docs) ==
  /\ fh_documents' = docs
  /\ IF fh_attempt < fh_max_retries - 1
     THEN /\ fh_log' = FLogged(FEntry(kind, status, hadiths, retry_delay))
          /\ fh_attempt' = fh_attempt + 1
          /\ UNCHANGED <<fh_pc, fh_page, fh_result>>
     ELSE /\ fh_log' = FLogged(FEntry(kind, status, hadiths, 0))
          /\ FetchReturns(docs)

\* a call of the helper: load_data never makes one, so the arguments are free
FetchCall ==
  /\ fh_pc = "idle"
  /\ \E c \in 1..Len(collections), m \in 0..MaxRetriesArg :
       /\ fh_collection' = collections[c]
       /\ fh_max_retries' = m
  /\ fh_pc' = "loop"
  /\ fh_documents' = <<>>
  /\ fh_page' = 1
  /\ fh_attempt' = 0
  /\ UNCHANGED <<fh_log, fh_result>>
  /\ UNCHANGED svc_vars

\* max_retries = 0: range(0) is empty, the for loop ends at once, with no
\* request, no break and no return
FetchSpin ==
  /\ fh_pc = "loop"
  /\ fh_max_retries = 0
  /\ fh_pc' = "while"
  /\ UNCHANGED <<fh_collection, fh_max_retries, fh_documents, fh_page,
                 fh_attempt, fh_log, fh_result>>
  /\ UNCHANGED svc_vars

\* the for loop ended without break or return: while True starts it over
FetchAgain ==
  /\ fh_pc = "while"
  /\ fh_pc' = "loop"
  /\ UNCHANGED <<fh_collection, fh_max_retries, fh_documents, fh_page,
                 fh_attempt, fh_log, fh_result>>
  /\ UNCHANGED svc_vars

\* requests.get raises
FetchNetworkError ==
  /\ fh_pc = "loop"
  /\ fh_max_retries > 0
  /\ FetchFailed("neterr", 0, <<>>, fh_documents)
  /\ UNCHANGED <<fh_collection, fh_max_retries>>
  /\ UNCHANGED svc_vars

\* 401, 403, 404: return documents
FetchTerminalStatus ==
  /\ fh_pc = "loop"
  /\ fh_max_retries > 0
  /\ \E status \in ErrorStatus :
       /\ IsTerminal(status)
       /\ fh_log' = FLogged(FEntry("status", status, <<>>, 0))
  /\ FetchReturns(fh_documents)
  /\ UNCHANGED <<fh_collection, fh_max_retries, fh_documents>>
  /\ UNCHANGED svc_vars

\* another non-200 status
FetchOtherStatus ==
  /\ fh_pc = "loop"
  /\ fh_max_retries > 0
  /\ \E status \in ErrorStatus :
       /\ ~IsTerminal(status)
       /\ FetchFailed("status", status, <<>>, fh_documents)
  /\ UNCHANGED <<fh_collection, fh_max_retries>>
  /\ UNCHANGED svc_vars

\* status 200 whose body response.json() cannot decode, or decodes to
\* something that is no object: except Exception catches whatever is raised
FetchUndecodable ==
  /\ fh_pc = "loop"
  /\ fh_max_retries > 0
  /\ FetchFailed("undecodable", 200, <<>>, fh_documents)
  /\ UNCHANGED <<fh_collection, fh_max_retries>>
  /\ UNCHANGED svc_vars

\* the pacing sleep comes before the test for an empty page
FetchOkM ==
  /\ fh_pc = "loop"
  /\ fh_max_retries > 0
  /\ \E last_page \in 0..MaxPages, bad \in BadPositions :
       LET hadiths == RemotePage(fh_collection, last_page, fh_page, bad)
           r == ProcessHadiths(fh_collection, hadiths)
       IN IF NoMoreHadiths(hadiths)
          THEN /\ fh_log' = FLogged(FEntry("ok", 200, hadiths, page_delay))
               /\ FetchReturns(fh_documents)
               /\ UNCHANGED fh_documents
          ELSE IF r.raised
          THEN FetchFailed("ok", 200, hadiths, fh_documents \o r.docs)
          ELSE /\ fh_documents' = fh_documents \o r.docs
               /\ fh_log' = FLogged(FEntry("ok", 200, hadiths, page_delay))
               /\ fh_page' = fh_page + 1
               /\ fh_attempt' = 0
               /\ UNCHANGED <<fh_pc, fh_result>>
  /\ UNCHANGED <<fh_collection, fh_max_retries>>
  /\ UNCHANGED svc_vars

\* status 200 with the records of the page asked for
FetchOk ==
  /\ fh_pc = "loop"
  /\ fh_max_retries > 0
  /\ \E last_page \in 0..MaxPages, bad \in BadPositions :
       LET hadiths == RemotePage(fh_collection, last_page, fh_page, bad)
           r == ProcessHadiths(fh_collection, hadiths)
       IN IF NoMoreHadiths(hadiths)
          THEN /\ fh_log' = FLogged(FEntry("ok", 200, hadiths, 0))
               /\ FetchReturns(fh_documents)
               /\ UNCHANGED fh_documents
          ELSE IF r.raised
          THEN FetchFailed("ok", 200, hadiths, fh_documents \o r.docs)
          ELSE /\ fh_documents' = fh_documents \o r.docs
               /\ fh_log' = FLogged(FEntry("ok", 200, hadiths, page_delay))
               /\ fh_page' = fh_page + 1
               /\ fh_attempt' = 0
               /\ UNCHANGED <<fh_pc, fh_result>>
  /\ UNCHANGED <<fh_collection, fh_max_retries>>
  /\ UNCHANGED svc_vars

\* --------------------------------------------------------------- the service
Init ==
  /\ env \in [OPENAI_API_KEY : {None, Some("key")}, HADITH_API_KEY : KeyValues]
  /\ pc = "import"
  /\ raised_in = "none"
  /\ documents = <<>>
  /\ surah = 1
  /\ attempt = 0
  /\ q_log = <<>>
  /\ coll = 1
  /\ h_log = <<>>
  /\ vector_store = None
  /\ qa_chain = None
  /\ conversation_history = <<>>
  /\ last = None
  /\ inflight = None
  /\ cut_short = {}
  /\ fh_pc = "idle"
  /\ fh_collection = collections[1]
  /\ fh_max_retries = 0
  /\ fh_documents = <<>>
  /\ fh_page = 1
  /\ fh_attempt = 0
  /\ fh_log = <<>>
  /\ fh_result = None

Next ==
  \/ ImportModule
  \/ QuranNetworkError
  \/ QuranStatusError
  \/ QuranUndecodable
  \/ QuranOk
  \/ CheckHadithKey
  \/ HadithNetworkError
  \/ HadithStatusError
  \/ HadithUndecodable
  \/ HadithOk
  \/ CreateVectorStore
  \/ SetupQaChain
  \/ StartServing
  \/ ChatAccept
  \/ Chat

Spec == Init /\ [][Next]_vars

FetchNext ==
  \/ FetchCall
  \/ FetchSpin
  \/ FetchAgain
  \/ FetchNetworkError
  \/ FetchTerminalStatus
  \/ FetchOtherStatus
  \/ FetchUndecodable
  \/ FetchOk

\* the helper is a method of the chatbot: the module was imported, so both
\* credentials are set
FetchInit ==
  /\ Init
  /\ env = [OPENAI_API_KEY |-> Some("key"), HADITH_API_KEY |-> Some("key")]

SpecFetch == FetchInit /\ [][FetchNext]_vars

\* ------------------------------------------------------------------ claims
\* the exchange recorded by the last /api/chat request
Exchange == last[1]

\* C1: whenever answer_question returns an error result, /api/chat answers
\* with status 400 and the error message as detail.
C1_ErrorResultGives400 ==
  (last # None /\ Exchange.result.status = "error")
    => /\ Exchange.http.status_code = 400
       /\ Exchange.http.detail = Exchange.result.error

\* the documents C2 asks of a surah whose response carried o ayahs of the
\* original and t of the translation: ayah i with ayah i, up to the shorter
PairsUpToShorter(s, o, t) ==
  [i \in 1..Min(o, t) |->
     QuranDoc(s, i, AyahText("quran-uthmani", s, i), AyahText("en.asad", s, i))]

\* the latest request of the Quran loop
QLast == q_log[Len(q_log)]

\* C2: a surah answered with 200 yields exactly min(len(original),
\* len(translation)) documents, document i pairing ayah i with ayah i, and
\* ingestion goes on with the next surah.
C2_PairsUpToShorterAndContinues ==
  (q_log # <<>> /\ QLast.kind = "ok")
    => /\ DocsOfSurah(documents, QLast.surah)
            = PairsUpToShorter(QLast.surah, QLast.o, QLast.t)
       /\ raised_in = "none"
       /\ pc \in {"quran", "hadith_key"}

\* C3: a failed fetch of one hadith collection (network failure, undecodable
\* body, non-200 status) never aborts load_data: no exception leaves it and
\* the loop goes on to the next collection or to the index build.
C3_CollectionFailureAbsorbed ==
  \A i \in 1..Len(h_log) :
    h_log[i].kind \in {"neterr", "undecodable", "status"}
      => /\ raised_in # "hadith"
         /\ pc \in {"hadith", "index", "setup", "startup_done", "startup_except"}

\* C5: a 401, 403 or 404 for a surah abandons the surah: it is the last
\* request for that surah, and the loop has moved to the next surah.
C5_TerminalStatusAbandonsSurah ==
  \A i \in 1..Len(q_log) :
    q_log[i].status \in TerminalStatus
      => /\ i = Len(q_log)
         /\ pc = "quran" => (surah = q_log[i].surah + 1 /\ attempt = 0)

\* a network exception, or a non-2xx status other than 401/403/404
TransientFailure(e) ==
  e.kind = "neterr" \/ (e.kind = "status" /\ e.status \notin TerminalStatus)

\* C6 (surah fetch): attempts 1 and 2 fail transiently and attempt 3 returns
\* 200: the records of attempt 3 are added exactly once and the loop goes on
\* to the next surah.
C6_ThirdAttemptSuccessUsed ==
  (/\ Len(q_log) = max_retries
   /\ \A i \in 1..(max_retries - 1) : TransientFailure(q_log[i])
   /\ QLast.kind = "ok")
    => /\ DocsOfSurah(documents, QLast.surah)
            = PairsUpToShorter(QLast.surah, QLast.o, QLast.t)
       /\ raised_in = "none"
       /\ pc \in {"quran", "hadith_key"}

\* C8: the documents handed to the index builder hold the records of every
\* non-empty page of every collection (when every collection answered 200
\* with well-formed records).
C8_EveryPageIngested ==
  (/\ pc = "setup"
   /\ vector_store # None
   /\ Len(h_log) = Len(collections)
   /\ \A i \in 1..Len(h_log) :
        /\ h_log[i].kind = "ok"
        /\ \A k \in 1..Len(h_log[i].hadiths) : h_log[i].hadiths[k].wellformed)
    => \A i \in 1..Len(h_log), p \in 1..MaxPages, k \in 1..MaxRecords :
         p <= h_log[i].last_page
           => HadithDocLoad(collections[i], HadithRecord(collections[i], p, k, TRUE))
                \in Range(vector_store[1])

\* a question that is empty or made of whitespace only
WhitespaceOnly(question) == \A i \in 1..Len(question) : question[i] \in Whitespace

\* C9: an empty or whitespace-only question gets an error result and the
\* chain is not invoked, Ready or not.
C9_BlankQuestionRejected ==
  (last # None /\ WhitespaceOnly(Exchange.question))
    => /\ Exchange.result.status = "error"
       /\ ~Exchange.invoked
       /\ Exchange.outcome = None

C9_Witness ==
  /\ last # None
  /\ Exchange.ready
  /\ Len(Exchange.question) >= 1
  /\ WhitespaceOnly(Exchange.question)
  /\ Exchange.result.status = "error"

\* C10: while qa_chain is unset, every question (the empty one included) gets
\* the uninitialized error and the chain is not invoked.
C10_UninitializedAlwaysError ==
  (last # None /\ ~Exchange.ready)
    => /\ Exchange.result
            = ErrorResult(<<"QA chain not initialized. Please call setup_qa_chain() first.">>)
       /\ ~Exchange.invoked

C10_Witness ==
  /\ last # None
  /\ qa_chain = None
  /\ ~Exchange.ready
  /\ Exchange.question = <<>>
  /\ Exchange.result.status = "error"

\* the latest request of fetch_all_hadiths
FLast == fh_log[Len(fh_log)]

\* C4: a 401, 403 or 404 on the first attempt for a page ends the call: no
\* retry, no further page, and the documents of the earlier pages returned.
C4_TerminalStatusReturnsAtOnce ==
  \A i \in 1..Len(fh_log) :
    (fh_log[i].status \in TerminalStatus /\ fh_log[i].attempt = 0)
      => /\ i = Len(fh_log)
         /\ fh_log[i].slept = 0
         /\ fh_pc = "done"
         /\ fh_result = Some(fh_documents)
         /\ Len(fh_documents) = fh_log[i].before

C4_Witness ==
  /\ fh_pc = "done"
  /\ fh_log # <<>>
  /\ FLast.status \in TerminalStatus
  /\ FLast.attempt = 0
  /\ FLast.page = 2
  /\ fh_documents # <<>>

\* C7: once a page answers 200 with no records, no further request is made
\* for the collection and the documents gathered so far are returned.
C7_EmptyPageEndsPagination ==
  \A i \in 1..Len(fh_log) :
    (fh_log[i].kind = "ok" /\ fh_log[i].hadiths = <<>>)
      => /\ i = Len(fh_log)
         /\ fh_log[i].slept = 0
         /\ fh_pc = "done"
         /\ fh_result = Some(fh_documents)
         /\ Len(fh_documents) = fh_log[i].before

C7_Witness ==
  /\ fh_pc = "done"
  /\ fh_log # <<>>
  /\ FLast.kind = "ok"
  /\ FLast.hadiths = <<>>
  /\ FLast.page = 2
  /\ fh_documents # <<>>

\* the text the chain generated in the last exchange (None when it has none)
Generated == Exchange.outcome[1].value

\* the chain was invoked in the last exchange and returned without raising
ChainReturned ==
  /\ last # None
  /\ Exchange.ready
  /\ Exchange.invoked
  /\ Exchange.outcome[1].kind # "raise"

\* C11: Ready, non-blank question: a generated answer that is empty or shorter
\* than 10 characters gives the invalid-generation error, never a success.
C11_ShortAnswerIsError ==
  (ChainReturned /\ (Generated = None \/ Len(Generated[1]) < min_answer_len))
    => Exchange.result
         = ErrorResult(<<"Generated response was invalid or too short.">>)

C11_Witness ==
  /\ ChainReturned
  /\ Generated # None
  /\ Len(Generated[1]) = min_answer_len - 1
  /\ Exchange.result.status = "error"

\* C12 as stated: every generated text that is non-empty and at least 10
\* characters long gives a success result carrying the text verbatim.
C12_LongAnswerIsSuccess ==
  (ChainReturned /\ Generated # None /\ Len(Generated[1]) >= min_answer_len)
    => Exchange.result = [answer |-> Generated[1], status |-> "success"]

\* the characters of a text that are no whitespace at either end: what is left
\* between the first and the last non-whitespace character
CoreLen(text) ==
  LET inner == {i \in 1..Len(text) : text[i] \notin Whitespace}
  IN IF inner = {} THEN 0
     ELSE (CHOOSE i \in inner : \A j \in inner : j <= i)
          - (CHOOSE i \in inner : \A j \in inner : j >= i) + 1

\* C12 amended: every generated text with at least 10 characters left once
\* leading and trailing whitespace is set aside gives a success result whose
\* answer is the generated text verbatim, whitespace included.
C12_LongStrippedAnswerIsSuccess ==
  (ChainReturned /\ Generated # None /\ CoreLen(Generated[1]) >= min_answer_len)
    => Exchange.result = [answer |-> Generated[1], status |-> "success"]

C12_Witness ==
  /\ ChainReturned
  /\ Generated # None
  /\ Len(Generated[1]) > min_answer_len
  /\ Generated[1][1] \in Whitespace
  /\ Exchange.result.status = "success"
  /\ Exchange.result.answer = Generated[1]

\* the phases of load_data
LoadPhases == {"quran", "hadith", "index"}

\* C13: Ready only after index build and chain set-up both succeeded; once
\* load_data raised (in a fetch or in the vector-store creation)
\* setup_qa_chain is not run, nothing is retried, qa_chain stays unset and
\* every answer is an error result.
C13_ReadyOnlyAfterFullStartup ==
  /\ qa_chain # None => (vector_store # None /\ raised_in = "none")
  /\ raised_in \in LoadPhases
       => /\ pc \in {"startup_except", "serving"}
          /\ qa_chain = None
          /\ last # None => Exchange.result.status = "error"

C13_Witness ==
  /\ raised_in = "index"
  /\ pc = "serving"
  /\ qa_chain = None
  /\ last # None
  /\ Exchange.result.status = "error"

\* the handler in flight is inside self.qa_chain.invoke: the service is Ready
\* and the question passed the validation
WaitingOnChain ==
  /\ inflight # None
  /\ qa_chain # None
  /\ ~WhitespaceOnly(inflight[1])

\* C17: while one request waits on the language-model call the server can
\* begin handling another request.
C17_OtherRequestsAccepted == WaitingOnChain => ENABLED ChatAccept

\* C14: answering leaves qa_chain, vector_store and conversation_history as
\* they are, whatever the outcome: once Ready, always Ready.
C14_AnswerLeavesStateAlone ==
  [][pc = "serving"
       => /\ qa_chain' = qa_chain
          /\ vector_store' = vector_store
          /\ conversation_history' = conversation_history]_vars

C14_Witness ==
  /\ pc = "serving"
  /\ qa_chain # None
  /\ last # None
  /\ Exchange.ready
  /\ Exchange.invoked
  /\ Exchange.outcome[1].kind = "raise"
  /\ Exchange.result.status = "error"

\* C15: answer_question always returns a result: its status is "success" or
\* "error", it carries an answer exactly when the status is "success" and an
\* error exactly when the status is "error", whatever the question and
\* whatever the chain does, exceptions included.
C15_TypedResult ==
  last # None
    => /\ Exchange.result.status \in {"success", "error"}
       /\ ("answer" \in DOMAIN Exchange.result) <=> (Exchange.result.status = "success")
       /\ ("error" \in DOMAIN Exchange.result) <=> (Exchange.result.status = "error")

C15_Witness ==
  /\ last # None
  /\ Exchange.invoked
  /\ Exchange.outcome[1] = [kind |-> "raise", value |-> Some("'result'")]
  /\ Exchange.result = [error |-> <<"An error occurred: ", "'result'">>, status |-> "error"]

\* C16: with HADITH_API_KEY absent or empty the service never becomes Ready:
\* no vector store is built (not from the Quran records alone either), the
\* chain stays unset and every answer is an error result.
C16_NoHadithKeyNeverReady ==
  env.HADITH_API_KEY \in {None, Some("")}
    => /\ vector_store = None
       /\ qa_chain = None
       /\ pc \notin {"hadith", "index", "startup_done"}
       /\ last # None => Exchange.result.status = "error"

C16_Witness ==
  /\ env.HADITH_API_KEY = Some("")
  /\ pc = "serving"
  /\ raised_in = "setup"
  /\ last # None
  /\ ~Blank(Exchange.question)
  /\ Exchange.result.status = "error"

\* ------------------------------------------- both fetchers, one at a time
\* a run of the service, or a call of the helper on its own
UnitNext ==
  \/ /\ fh_pc = "idle"
     /\ Next
  \/ /\ pc = "import"
     /\ FetchNext

SpecUnits == FetchInit /\ [][UnitNext]_vars

\* the requests logged for the surah: one after the other, a retry delay after
\* each but the last, at most max_retries of them, no delay after the last
SurahAttemptsBounded ==
  /\ Len(q_log) <= max_retries
  /\ \A i \in 1..Len(q_log) :
       /\ q_log[i].attempt = i - 1
       /\ q_log[i].surah = QLast.surah
       /\ i < Len(q_log) => q_log[i].slept = retry_delay
  /\ q_log # <<>> => QLast.slept # retry_delay \/ Len(q_log) < max_retries
  /\ (pc = "quran" /\ q_log # <<>>)
       => \/ QLast.surah = surah /\ attempt = Len(q_log)
          \/ QLast.surah = surah - 1 /\ attempt = 0

\* three transient failures: the surah has no document and the loop moved on
SurahGivenUp ==
  (/\ Len(q_log) = max_retries
   /\ \A i \in 1..max_retries : TransientFailure(q_log[i]))
    => /\ QLast.slept = 0
       /\ DocsOfSurah(documents, QLast.surah) = <<>>
       /\ raised_in = "none"
       /\ \/ pc = "quran" /\ surah = QLast.surah + 1 /\ attempt = 0
          \/ pc = "hadith_key" /\ QLast.surah = total_surahs

\* the same for the requests logged for the page, when max_retries = 3
PageAttemptsBounded ==
  /\ Len(fh_log) <= max_retries
  /\ \A i \in 1..Len(fh_log) :
       /\ fh_log[i].attempt = i - 1
       /\ fh_log[i].page = FLast.page
       /\ i < Len(fh_log) => fh_log[i].slept = retry_delay
  /\ fh_log # <<>> => FLast.slept # retry_delay \/ Len(fh_log) < max_retries
  /\ (fh_pc = "loop" /\ fh_log # <<>>)
       => \/ FLast.page = fh_page /\ fh_attempt = Len(fh_log)
          \/ FLast.page = fh_page - 1 /\ fh_attempt = 0

\* three transient failures: the call returned the documents of the earlier pages
PageGivenUp ==
  (/\ Len(fh_log) = max_retries
   /\ \A i \in 1..max_retries : TransientFailure(fh_log[i]))
    => /\ FLast.slept = 0
       /\ fh_pc = "done"
       /\ fh_result = Some(fh_documents)
       /\ Len(fh_documents) = fh_log[1].before

\* C18: a surah in load_data, and a page in fetch_all_hadiths called with
\* max_retries = 3, is requested at most 3 times, with a retry delay between
\* consecutive attempts and none after the last; after 3 transient failures
\* the surah has no document and the next surah is fetched, and
\* fetch_all_hadiths returns the documents of the earlier pages.
C18_ThreeAttemptsPerUnit ==
  /\ SurahAttemptsBounded
  /\ SurahGivenUp
  /\ fh_max_retries = max_retries => (PageAttemptsBounded /\ PageGivenUp)

C18_Witness ==
  /\ pc = "quran"
  /\ surah = 2
  /\ attempt = 0
  /\ Len(q_log) = max_retries
  /\ \A i \in 1..max_retries : TransientFailure(q_log[i])
  /\ QLast.surah = 1
  /\ documents = <<>>

\* the helper's side of C18: page 2 given up after three transient failures
C18_PageWitness ==
  /\ fh_pc = "done"
  /\ fh_max_retries = max_retries
  /\ Len(fh_log) = max_retries
  /\ \A i \in 1..max_retries : TransientFailure(fh_log[i])
  /\ FLast.page = 2
  /\ fh_result # None
  /\ fh_result[1] # <<>>

\* the attempt got a non-empty page and turned every record into a document
PageSucceeded(e) ==
  /\ e.kind = "ok"
  /\ e.hadiths # <<>>
  /\ ~ProcessHadiths(fh_collection, e.hadiths).raised

\* C19: the pacing delay follows exactly the successful non-empty responses
\* (none after a failed attempt, none after the final empty page), and the
\* first request for page p+1 comes right after the pacing delay that follows
\* the successful response for page p.
C19_PacingBetweenPages ==
  /\ \A i \in 1..Len(fh_log) :
       (fh_log[i].slept = page_delay) <=> PageSucceeded(fh_log[i])
  /\ (fh_pc = "loop" /\ fh_page > 1 /\ fh_attempt = 0)
       => /\ fh_log # <<>>
          /\ FLast.page = fh_page - 1
          /\ PageSucceeded(FLast)
          /\ FLast.slept = page_delay

C19_Witness ==
  /\ fh_pc = "done"
  /\ fh_page = 2
  /\ Len(fh_log) = 2
  /\ fh_log[1].kind = "neterr"
  /\ fh_log[1].slept = retry_delay
  /\ FLast.kind = "ok"
  /\ FLast.hadiths = <<>>
  /\ FLast.slept = 0
  /\ fh_documents # <<>>

\* C20: every record of every fetched page has at most one document in the
\* list fetch_all_hadiths builds, whatever failed and was retried.
C20_OneDocumentPerRecord ==
  \A i, j \in 1..Len(fh_documents) :
    fh_documents[i] = fh_documents[j] => i = j

\* C21: an index is built only from whole surahs: each surah has a document
\* for every ayah of the original edition its 200 response carried, or none.
\* A surah processed part-way makes load_data raise: no index, never Ready.
C21_IndexHoldsWholeSurahs ==
  /\ vector_store # None => cut_short = {}
  /\ cut_short # {}
       => /\ raised_in = "quran"
          /\ pc \in {"startup_except", "serving"}
          /\ vector_store = None
          /\ qa_chain = None
  /\ pc = "quran" => DocsOfSurah(documents, surah) = <<>>
  /\ (q_log # <<>> /\ QLast.kind = "ok" /\ QLast.surah \notin cut_short)
       => Len(DocsOfSurah(documents, QLast.surah)) = QLast.o
  /\ (q_log # <<>> /\ QLast.kind # "ok")
       => DocsOfSurah(documents, QLast.surah) = <<>>
  /\ (vector_store # None /\ pc \in {"setup", "startup_done"})
       => vector_store = Some(documents)

C21_Witness ==
  /\ pc = "startup_except"
  /\ cut_short = {2}
  /\ q_log # <<>>
  /\ QLast.kind = "ok"
  /\ QLast.o = 2
  /\ Len(DocsOfSurah(documents, 2)) = 1
  /\ Len(DocsOfSurah(documents, 1)) = 2
  /\ vector_store = None
  /\ qa_chain = None

\* ------------------------------------------------ the helper, kept running
\* the interpreter keeps executing the call: a step that can be taken is taken
SpecFetchLive == SpecFetch /\ WF_vars(FetchNext)

\* C22: every call of fetch_all_hadiths returns, whatever max_retries >= 0 and
\* whatever the API answers, the collection having finitely many pages.
C22_FetchAlwaysReturns == (fh_pc = "loop") ~> (fh_pc = "done")

\* with at least one attempt allowed per page the call does return
FetchReturnsWithRetries ==
  (fh_pc = "loop" /\ fh_max_retries > 0) ~> (fh_pc = "done")

\* the requests logged are those of one page, attempt after attempt; the page
\* counter is past that page exactly when its last attempt succeeded
PageOfLog ==
  /\ fh_page >= 1
  /\ fh_log = <<>> => fh_page = 1
  /\ \A i \in 1..Len(fh_log) :
       /\ fh_log[i].page = FLast.page
       /\ fh_log[i].attempt = i - 1
       /\ i < Len(fh_log) => ~PageSucceeded(fh_log[i])
  /\ fh_log # <<>>
       => IF PageSucceeded(FLast)
          THEN FLast.page = fh_page - 1 /\ fh_attempt = 0
          ELSE FLast.page = fh_page

\* a step of the call: the first request is for page 1, a request is for the
\* current page, and the page counter moves, by one, exactly when the request
\* got a non-empty page all of whose records became documents
PageStep ==
  /\ fh_pc = "idle" => fh_page' = 1
  /\ fh_pc # "idle" => fh_page' \in {fh_page, fh_page + 1}
  /\ (fh_pc = "loop" /\ fh_max_retries > 0)
       => LET e == fh_log'[Len(fh_log')]
              r == ProcessHadiths(fh_collection, e.hadiths)
          IN /\ e.page = fh_page
             /\ e.attempt = fh_attempt
             /\ (fh_page' = fh_page + 1)
                  <=> /\ e.kind = "ok"
                      /\ e.status = 200
                      /\ e.hadiths # <<>>
                      /\ Len(r.docs) = Len(e.hadiths)
                      /\ fh_documents' = fh_documents \o r.docs
             /\ fh_page' = fh_page => fh_attempt' \in {fh_attempt, fh_attempt + 1}

\* C23: the pages requested start at 1 and never skip or go back: a retry
\* asks for the same page again, and page p+1 is asked for only after page p
\* answered 200 with at least one record and every record became a document.
C23_PagesInOrder == []PageOfLog /\ [][PageStep]_vars

C23_Witness ==
  /\ fh_page = 2
  /\ Len(fh_log) = 2
  /\ fh_log[1].page = 2
  /\ fh_log[1].kind = "ok"
  /\ fh_log[1].hadiths # <<>>
  /\ ~PageSucceeded(fh_log[1])
  /\ fh_log[2].page = 2
  /\ fh_log[2].attempt = 1
  /\ Len(fh_documents) > MaxRecords

====
